---- MODULE Spec2Model ----
(***************************************************************************)
(* Clinical-trial matching client (oohalakkadi/clincrush).                 *)
(*                                                                         *)
(* The ranking pipeline (utils/matchingAlgorithm: filterTrialsByAllergies, *)
(* calculateMatchScore, rankTrialsByMatchScore) is modelled as operators,  *)
(* the TrialMatching component (components/trial-matching/TrialMatching)   *)
(* as a state machine: its React state cells, its three refs, and the      *)
(* searchTrials calls that are in flight together with the values their    *)
(* continuations closed over.                                              *)
(*                                                                         *)
(* Representation.  A JavaScript string is a sequence of one-character     *)
(* strings.  An optional field (`f?:`), undefined, null and NaN are the    *)
(* empty sequence <<>>; a present value v is <<v>>.  A number that the     *)
(* scorer produces is a record [k, n, d]: k = "fin" for the rational n/d   *)
(* (d > 0), "nan", "pinf" or "ninf".  IEEE rounding is not modelled.       *)
(***************************************************************************)
EXTENDS Integers, Sequences, FiniteSets, TLC

(***************************************************************************)
(* String primitives                                                       *)
(***************************************************************************)
Upper == <<"A","B","C","D","E","F","G","H","I","J","K","L","M",
           "N","O","P","Q","R","S","T","U","V","W","X","Y","Z">>
Lower == <<"a","b","c","d","e","f","g","h","i","j","k","l","m",
           "n","o","p","q","r","s","t","u","v","w","x","y","z">>
Digits == <<"0","1","2","3","4","5","6","7","8","9">>

\* String.prototype.toLowerCase, one character
ToLowerChar(c) ==
  IF \E i \in 1..26 : Upper[i] = c
    THEN Lower[CHOOSE i \in 1..26 : Upper[i] = c]
    ELSE c

\* String.prototype.toLowerCase
toLowerCase(s) == [i \in 1..Len(s) |-> ToLowerChar(s[i])]

\* String.prototype.includes
includes(s, sub) ==
  \E i \in 0..(Len(s) - Len(sub)) : SubSeq(s, i + 1, i + Len(sub)) = sub

\* String.prototype.trim (the only white space used is the blank)
trim(s) ==
  IF \A i \in 1..Len(s) : s[i] = " "
    THEN <<>>
    ELSE LET first == CHOOSE i \in 1..Len(s) :
                        s[i] # " " /\ \A j \in 1..(i - 1) : s[j] = " "
             last  == CHOOSE i \in 1..Len(s) :
                        s[i] # " " /\ \A j \in (i + 1)..Len(s) : s[j] = " "
         IN  SubSeq(s, first, last)

\* s.split(',')[0]
splitComma0(s) ==
  IF \E i \in 1..Len(s) : s[i] = ","
    THEN LET c == CHOOSE i \in 1..Len(s) :
                    s[i] = "," /\ \A j \in 1..(i - 1) : s[j] # ","
         IN  SubSeq(s, 1, c - 1)
    ELSE s

DigitVal(c) == (CHOOSE i \in 1..10 : Digits[i] = c) - 1
IsDigit(c) == \E i \in 1..10 : Digits[i] = c

RECURSIVE DigitsValue(_, _)
\* value of the longest run of digits that starts s, acc is the value so far
DigitsValue(s, acc) ==
  IF s = <<>> \/ ~IsDigit(Head(s))
    THEN acc
    ELSE DigitsValue(Tail(s), 10 * acc + DigitVal(Head(s)))

RECURSIVE SkipBlanks(_)
SkipBlanks(s) == IF s # <<>> /\ Head(s) = " " THEN SkipBlanks(Tail(s)) ELSE s

\* parseInt(s): <<n>>, or <<>> for NaN
parseInt(s) ==
  LET t    == SkipBlanks(s)
      neg  == t # <<>> /\ Head(t) = "-"
      body == IF t # <<>> /\ Head(t) \in {"-", "+"} THEN Tail(t) ELSE t
  IN  IF body = <<>> \/ ~IsDigit(Head(body))
        THEN <<>>
        ELSE <<(IF neg THEN -1 ELSE 1) * DigitsValue(body, 0)>>

\* x || dflt for a parseInt result: NaN and 0 are falsy
OrDefault(x, dflt) == IF x = <<>> \/ x[1] = 0 THEN dflt ELSE x[1]

(***************************************************************************)
(* filterTrialsByAllergies                                                 *)
(***************************************************************************)
\* allergies.map(a => a.toLowerCase().trim())
normalizedAllergies(allergies) ==
  [i \in 1..Len(allergies) |-> trim(toLowerCase(allergies[i]))]

\* SubstanceHit comparing the name with === instead of includes
SubstanceHit_exactName(trial, norm) ==
  /\ trial.substancesUsed # <<>>
  /\ \E i \in 1..Len(trial.substancesUsed[1]) :
       LET substance == trial.substancesUsed[1][i]
       IN  /\ substance.name # <<>>
           /\ \E j \in 1..Len(norm) :
                toLowerCase(substance.name) = norm[j]

\* the substance loop of the filter callback: some named substance contains
\* some normalized allergen
SubstanceHit(trial, norm) ==
  /\ trial.substancesUsed # <<>>
  /\ \E i \in 1..Len(trial.substancesUsed[1]) :
       LET substance == trial.substancesUsed[1][i]
       IN  /\ substance.name # <<>>
           /\ \E j \in 1..Len(norm) :
                includes(toLowerCase(substance.name), norm[j])

AllergyTo  == <<"a","l","l","e","r","g","y"," ","t","o"," ">>
AllergicTo == <<"a","l","l","e","r","g","i","c"," ","t","o"," ">>

\* the eligibility-criteria loop of the filter callback
CriteriaHit(trial, norm) ==
  /\ trial.eligibilityCriteria # <<>>
  /\ trial.eligibilityCriteria[1] # <<>>
  /\ LET lowerCriteria == toLowerCase(trial.eligibilityCriteria[1])
     IN  \E j \in 1..Len(norm) :
           \/ includes(lowerCriteria, AllergyTo \o norm[j])
           \/ includes(lowerCriteria, AllergicTo \o norm[j])

\* the callback of trials.filter: TRUE keeps the trial
KeepTrial(trial, norm) == ~SubstanceHit(trial, norm) /\ ~CriteriaHit(trial, norm)

RECURSIVE SelectKept(_, _)
\* Array.prototype.filter with KeepTrial
SelectKept(ts, norm) ==
  IF ts = <<>>
    THEN <<>>
    ELSE (IF KeepTrial(Head(ts), norm) THEN <<Head(ts)>> ELSE <<>>)
           \o SelectKept(Tail(ts), norm)

\* filterTrialsByAllergies returning the survivors last to first
filterTrialsByAllergies_reversed(ts, allergies) ==
  LET kept == IF allergies = <<>>
                THEN ts
                ELSE SelectKept(ts, normalizedAllergies(allergies))
  IN  [i \in 1..Len(kept) |-> kept[Len(kept) + 1 - i]]

filterTrialsByAllergies(ts, allergies) ==
  IF allergies = <<>>
    THEN ts
    ELSE SelectKept(ts, normalizedAllergies(allergies))

(***************************************************************************)
(* Numbers of the scorer                                                   *)
(***************************************************************************)
RECURSIVE Gcd(_, _)
\* the greatest common divisor of a >= 0 and b >= 0
Gcd(a, b) == IF b = 0 THEN a ELSE Gcd(b, a % b)

\* the finite number n/d, d > 0, in lowest terms
Fin(n, d) ==
  LET g == Gcd(IF n < 0 THEN -n ELSE n, d)
  IN  [k |-> "fin", n |-> n \div g, d |-> d \div g]
NaN  == [k |-> "nan",  n |-> 0, d |-> 1]
PInf == [k |-> "pinf", n |-> 0, d |-> 1]
NInf == [k |-> "ninf", n |-> 0, d |-> 1]

\* x < y for two numbers, false when either is NaN
NumLess(x, y) ==
  CASE x.k = "nan" \/ y.k = "nan" -> FALSE
    [] x.k = "pinf"               -> FALSE
    [] y.k = "ninf"               -> FALSE
    [] x.k = "ninf"               -> TRUE
    [] y.k = "pinf"               -> TRUE
    [] OTHER                      -> x.n * y.d < y.n * x.d

\* x + y
NumAdd(x, y) ==
  CASE x.k = "nan" \/ y.k = "nan"                          -> NaN
    [] (x.k = "pinf" /\ y.k = "ninf")
         \/ (x.k = "ninf" /\ y.k = "pinf")                 -> NaN
    [] x.k = "pinf" \/ y.k = "pinf"                        -> PInf
    [] x.k = "ninf" \/ y.k = "ninf"                        -> NInf
    [] OTHER -> Fin(x.n * y.d + y.n * x.d, x.d * y.d)

\* Math.max(a, x) and Math.min(a, x) for an integer a: NaN is contagious
MathMax(a, x) ==
  IF x.k = "nan" THEN NaN ELSE IF NumLess(x, Fin(a, 1)) THEN Fin(a, 1) ELSE x
MathMin(a, x) ==
  IF x.k = "nan" THEN NaN ELSE IF NumLess(Fin(a, 1), x) THEN Fin(a, 1) ELSE x

\* 20 * (1 - (distance / maxTravelDistance)) in IEEE arithmetic
distanceScore(distance, maxTravelDistance) ==
  CASE maxTravelDistance > 0 ->
         Fin(20 * (maxTravelDistance - distance), maxTravelDistance)
    [] maxTravelDistance < 0 ->
         Fin(20 * (distance - maxTravelDistance), -maxTravelDistance)
    [] maxTravelDistance = 0 /\ distance = 0 -> NaN
    [] maxTravelDistance = 0 /\ distance < 0 -> PInf
    [] OTHER                                 -> NInf

\* x / maxScore for a positive integer maxScore
NumDivInt(x, maxScore) ==
  IF x.k = "fin" THEN Fin(x.n, x.d * maxScore) ELSE x

(***************************************************************************)
(* calculateMatchScore                                                     *)
(***************************************************************************)
conditionMatch(profile, trial) ==
  /\ trial.conditions # <<>>
  /\ \E i \in 1..Len(trial.conditions[1]) :
       \E j \in 1..Len(profile.medicalConditions) :
         LET condition     == toLowerCase(trial.conditions[1][i])
             userCondition == toLowerCase(profile.medicalConditions[j])
         IN  includes(userCondition, condition)
               \/ includes(condition, userCondition)

StrAll  == <<"a","l","l">>
StrBoth == <<"b","o","t","h">>

genderMatch(profile, trial) ==
  /\ trial.gender # <<>>
  /\ trial.gender[1] # <<>>
  /\ LET normalizedGender == toLowerCase(trial.gender[1])
     IN  \/ normalizedGender = StrAll
         \/ includes(normalizedGender, StrBoth)
         \/ includes(normalizedGender, toLowerCase(profile.gender))

\* parseInt(undefined) is NaN
ParseAge(field) == IF field = <<>> THEN <<>> ELSE parseInt(field[1])

ageMatch(profile, trial) ==
  LET minAge == OrDefault(ParseAge(trial.age_range[1].min), 0)
      maxAge == OrDefault(ParseAge(trial.age_range[1].max), 999)
  IN  profile.age >= minAge /\ profile.age <= maxAge

\* locationPoints without the floor Math.max(5, ...)
locationPoints_noFloor(profile, trial) ==
  IF trial.distance # <<>> /\ trial.distance[1] <= profile.maxTravelDistance
    THEN distanceScore(trial.distance[1], profile.maxTravelDistance)
    ELSE Fin(0, 1)

\* points added by the location block
locationPoints(profile, trial) ==
  IF trial.distance # <<>> /\ trial.distance[1] <= profile.maxTravelDistance
    THEN MathMax(5, distanceScore(trial.distance[1], profile.maxTravelDistance))
    ELSE Fin(0, 1)

\* the guard of the compensation block
compensationApplies(profile) ==
  /\ profile.preferredCompensation # <<>>
  /\ profile.preferredCompensation[1] > 0

\* compensationPoints without the cap Math.min(9, ...)
compensationPoints_noCap(profile, trial) ==
  IF /\ trial.compensation # <<>>
     /\ trial.compensation[1].has_compensation
     /\ trial.compensation[1].amount # <<>>
     /\ trial.compensation[1].amount[1] # 0
    THEN LET amount    == trial.compensation[1].amount[1]
             preferred == profile.preferredCompensation[1]
         IN  IF amount >= preferred
               THEN Fin(10, 1)
               ELSE Fin(10 * amount, preferred)
    ELSE Fin(0, 1)

\* points added by the compensation block when it applies
compensationPoints(profile, trial) ==
  IF /\ trial.compensation # <<>>
     /\ trial.compensation[1].has_compensation
     /\ trial.compensation[1].amount # <<>>
     /\ trial.compensation[1].amount[1] # 0
    THEN LET amount    == trial.compensation[1].amount[1]
             preferred == profile.preferredCompensation[1]
         IN  IF amount >= preferred
               THEN Fin(10, 1)
               ELSE MathMin(9, Fin(10 * amount, preferred))
    ELSE Fin(0, 1)

\* trial.age_range.min on a record without age_range is a TypeError
scoreThrows(profile, trial) == trial.age_range = <<>>

\* calculateMatchScore adding the location weight only for a trial that has
\* a distance
calculateMatchScore_weightNeedsDistance(profile, trial) ==
  LET s1 == IF conditionMatch(profile, trial) THEN 50 ELSE 0
      s2 == s1 + (IF genderMatch(profile, trial) THEN 15 ELSE 0)
      s3 == s2 + (IF ageMatch(profile, trial) THEN 15 ELSE 0)
      s4 == NumAdd(Fin(s3, 1), locationPoints(profile, trial))
      s5 == IF compensationApplies(profile)
              THEN NumAdd(s4, compensationPoints(profile, trial))
              ELSE s4
      maxScore == 50 + 15 + 15
                    + (IF trial.distance # <<>> THEN 20 ELSE 0)
                    + (IF compensationApplies(profile) THEN 10 ELSE 0)
  IN  NumDivInt(s5, maxScore)

\* the value calculateMatchScore returns when it does not throw
calculateMatchScore(profile, trial) ==
  LET s1 == IF conditionMatch(profile, trial) THEN 50 ELSE 0
      s2 == s1 + (IF genderMatch(profile, trial) THEN 15 ELSE 0)
      s3 == s2 + (IF ageMatch(profile, trial) THEN 15 ELSE 0)
      s4 == NumAdd(Fin(s3, 1), locationPoints(profile, trial))
      s5 == IF compensationApplies(profile)
              THEN NumAdd(s4, compensationPoints(profile, trial))
              ELSE s4
      maxScore == 50 + 15 + 15 + 20
                    + (IF compensationApplies(profile) THEN 10 ELSE 0)
  IN  NumDivInt(s5, maxScore)

(***************************************************************************)
(* rankTrialsByMatchScore                                                  *)
(***************************************************************************)
\* (t.matchScore || 0): NaN and 0 are falsy
sortKey(t) ==
  IF t.matchScore = <<>> \/ t.matchScore[1].k = "nan"
    THEN Fin(0, 1)
    ELSE t.matchScore[1]

\* the comparator (b.matchScore || 0) - (a.matchScore || 0) is positive:
\* b goes before a
comparatorPositive(a, b) == NumLess(sortKey(a), sortKey(b))

RECURSIVE insertStable(_, _)
\* insert x behind every element the comparator does not put behind x
insertStable(sorted, x) ==
  IF sorted = <<>>
    THEN <<x>>
    ELSE IF comparatorPositive(Head(sorted), x)
           THEN <<x>> \o sorted
           ELSE <<Head(sorted)>> \o insertStable(Tail(sorted), x)

RECURSIVE stableSort(_, _)
\* Array.prototype.sort (stable since ES2019) with the comparator above
stableSort(todo, sorted) ==
  IF todo = <<>>
    THEN sorted
    ELSE stableSort(Tail(todo), insertStable(sorted, Head(todo)))

\* filteredTrials.map(trial => ({ ...trial, matchScore }))
scoredTrials(ts, profile) ==
  [i \in 1..Len(ts) |->
     [ts[i] EXCEPT !.matchScore = <<calculateMatchScore(profile, ts[i])>>]]

\* rankTrialsByMatchScore throws when scoring a surviving trial throws
rankThrows(ts, profile) ==
  LET filteredTrials == filterTrialsByAllergies(ts, profile.allergies)
  IN  \E i \in 1..Len(filteredTrials) : scoreThrows(profile, filteredTrials[i])

rankTrialsByMatchScore(ts, profile) ==
  stableSort(scoredTrials(filterTrialsByAllergies(ts, profile.allergies),
                          profile), <<>>)

(***************************************************************************)
(* Inputs: the profiles the host hands to the component and the trial      *)
(* records the search endpoint returns (records of the Trial interface)    *)
(***************************************************************************)
sAsthma  == <<"A","s","t","h","m","a">>
sFlu     == <<"f","l","u">>
sRomeIT  == <<"R","o","m","e",","," ","I","T">>
sFemale  == <<"F","e","m","a","l","e">>
sMale    == <<"M","a","l","e">>
sAllG    == <<"A","L","L">>
sPeanutA == <<" ","P","e","a","n","u","t">>
sPeanutExtract == <<"P","e","a","n","u","t"," ","E","x","t","r","a","c","t">>
s18Years == <<"1","8"," ","Y","e","a","r","s">>
s65Years == <<"6","5"," ","Y","e","a","r","s">>
sNA      == <<"N","/","A">>

ProfileA ==
  [medicalConditions |-> <<sAsthma, sFlu>>, location |-> sRomeIT,
   allergies |-> <<>>, maxTravelDistance |-> 50,
   gender |-> sFemale, age |-> 30, preferredCompensation |-> <<>>]
\* the fields of the fingerprint as in ProfileA, another age
ProfileA2 == [ProfileA EXCEPT !.age = 70]
ProfileB ==
  [ProfileA EXCEPT !.medicalConditions = <<sAsthma>>,
                   !.allergies = <<sPeanutA>>]
ProfileNoConditions == [ProfileA EXCEPT !.medicalConditions = <<>>]
ProfileNoLocation   == [ProfileA EXCEPT !.location = <<>>]

Profiles ==
  {ProfileA, ProfileA2, ProfileB, ProfileNoConditions, ProfileNoLocation}

Trial1 ==
  [id |-> "NCT1", conditions |-> <<(<<sAsthma>>)>>, gender |-> <<sAllG>>,
   age_range |-> <<[min |-> <<s18Years>>, max |-> <<s65Years>>]>>,
   distance |-> <<10>>, compensation |-> <<>>,
   eligibilityCriteria |-> <<>>,
   substancesUsed |-> <<(<<[name |-> sPeanutExtract]>>)>>,
   matchScore |-> <<>>]
Trial2 ==
  [id |-> "NCT2", conditions |-> <<(<<sFlu>>)>>, gender |-> <<sMale>>,
   age_range |-> <<[min |-> <<sNA>>, max |-> <<sNA>>]>>,
   distance |-> <<>>, compensation |-> <<>>,
   eligibilityCriteria |-> <<>>, substancesUsed |-> <<>>,
   matchScore |-> <<>>]
Trial3 ==
  [id |-> "NCT3", conditions |-> <<(<<sAsthma>>)>>, gender |-> <<sFemale>>,
   age_range |-> <<[min |-> <<s18Years>>, max |-> <<sNA>>]>>,
   distance |-> <<50>>, compensation |-> <<>>,
   eligibilityCriteria |-> <<>>, substancesUsed |-> <<>>,
   matchScore |-> <<>>]

\* response.data: an array of trial records, or something that is no array
ArrayData(items) == [isArray |-> TRUE, items |-> items]
NoArrayData      == [isArray |-> FALSE, items |-> <<>>]
NoData           == ArrayData(<<>>)

Responses ==
  {NoArrayData, NoData, ArrayData(<<Trial2, Trial1>>),
   ArrayData(<<Trial3>>)}

\* the cap on the searchTrials calls issued in a run
MaxCalls == 3

ErrMissingConditions == "Your profile is missing medical conditions. Please update your profile."
ErrMissingLocation   == "Your profile is missing location information. Please update your profile."
ErrNoTrials          == "No clinical trials found matching your criteria."
ErrFailedToLoad      == "Failed to load clinical trials. Please try again later."
ErrNoMoreTrials      == "No more trials found matching your criteria."

(***************************************************************************)
(* TrialMatching: state                                                    *)
(***************************************************************************)
VARIABLES
  userProfile,        \* the userProfile prop of the latest render
  trials,             \* useState: the ranked result list
  currentIndex,       \* useState: the review cursor
  loading,            \* useState
  error,              \* useState: <<>> for null, <<message>> otherwise
  matchedTrials,      \* useState: the accepted bucket
  rejectedTrials,     \* useState: the rejected bucket
  isMountedRef,       \* useRef(true)
  isFetchingRef,      \* useRef(false)
  searchedProfileRef, \* useRef(null): <<>> for null, else a fingerprint
  calls,              \* the searchTrials calls in flight, oldest first
  callsIssued         \* how many times searchTrials has been called

\* a caller of utils/matchingAlgorithm: the arguments it holds, the function
\* it called last and what that call returned
VARIABLES
  argProfile,         \* the profile argument
  argTrial,           \* the trial argument of calculateMatchScore
  argTrials,          \* the trials argument: the caller's array
  callee,             \* "none", or the name of the function called
  returnValue         \* <<>> before a call, <<v>> for the value returned

pipelineVars == <<argProfile, argTrial, argTrials, callee, returnValue>>

vars ==
  <<userProfile, trials, currentIndex, loading, error, matchedTrials,
    rejectedTrials, isMountedRef, isFetchingRef, searchedProfileRef, calls,
    callsIssued, argProfile, argTrial, argTrials, callee, returnValue>>

\* the caller of the pipeline functions has called nothing
pipelineIdle ==
  /\ argProfile = ProfileA
  /\ argTrial = Trial1
  /\ argTrials = <<>>
  /\ callee = "none"
  /\ returnValue = <<>>

Init ==
  /\ userProfile \in Profiles
  /\ trials = <<>>
  /\ currentIndex = 0
  /\ loading = TRUE
  /\ error = <<>>
  /\ matchedTrials = <<>>
  /\ rejectedTrials = <<>>
  /\ isMountedRef = TRUE
  /\ isFetchingRef = FALSE
  /\ searchedProfileRef = <<>>
  /\ calls = <<>>
  /\ callsIssued = 0
  /\ pipelineIdle

(***************************************************************************)
(* services/api: searchTrials                                              *)
(***************************************************************************)
\* the query parameters searchTrials sends: options.x || default
searchTrials(condition, location, options) ==
  [condition   |-> condition,
   location    |-> location,
   max_results |-> IF options.max_results = 0 THEN 20 ELSE options.max_results,
   distance    |-> IF options.distance = 0 THEN 50 ELSE options.distance]

\* what the awaited searchTrials call settles with: response.data when
\* axios.get resolves, the rethrown error when it rejects
Fulfilled(data) == [status |-> "fulfilled", data |-> data]
Rejected        == [status |-> "rejected", data |-> NoData]
Outcomes        == {Fulfilled(d) : d \in Responses} \cup {Rejected}

\* a call in flight: what was sent and the values the awaiting function
\* closed over
Call(kind, profile, key, closedTrials, params) ==
  [kind |-> kind, userProfile |-> profile, profileKey |-> key,
   trials |-> closedTrials, params |-> params]

RemoveAt(seq, i) == SubSeq(seq, 1, i - 1) \o SubSeq(seq, i + 1, Len(seq))

(***************************************************************************)
(* TrialMatching: the effect that runs loadTrials                          *)
(***************************************************************************)
\* JSON.stringify({conditions, location, allergies, maxDistance})
profileKey(p) ==
  <<p.medicalConditions, p.location, p.allergies, p.maxTravelDistance>>

\* loadTrialsBusy without the test of the in-flight flag
loadTrialsBusy_noFetchCheck == ~isMountedRef

\* if (isFetchingRef.current || !isMountedRef.current) return
loadTrialsBusy == isFetchingRef \/ ~isMountedRef

\* profileUnchanged comparing the profile objects, not their fingerprints
profileUnchanged_byObject(p) == p = userProfile

\* if (profileKey === searchedProfileRef.current) return
profileUnchanged(p) == profileKey(p) = searchedProfileRef

\* !userProfile.medicalConditions || userProfile.medicalConditions.length === 0
missingConditions(p) == p.medicalConditions = <<>>

\* missingLocation as in the component before the location check was added
missingLocation_never(p) == FALSE

\* !userProfile.location
missingLocation(p) == p.location = <<>>

\* loadTrials returns before it touches anything
loadTrialsSkip(p) ==
  /\ loadTrialsBusy \/ profileUnchanged(p)
  /\ UNCHANGED <<trials, currentIndex, loading, error, matchedTrials,
                 rejectedTrials, isMountedRef, isFetchingRef,
                 searchedProfileRef, calls, callsIssued>>

\* loadTrials reports a profile that cannot be searched
loadTrialsInvalid(p) ==
  /\ ~loadTrialsBusy
  /\ ~profileUnchanged(p)
  /\ missingConditions(p) \/ missingLocation(p)
  /\ error' = IF missingConditions(p)
                THEN <<ErrMissingConditions>>
                ELSE <<ErrMissingLocation>>
  /\ loading' = FALSE
  /\ UNCHANGED <<callsIssued, trials, currentIndex, matchedTrials,
                 rejectedTrials,
                 isMountedRef, isFetchingRef, searchedProfileRef, calls>>

\* loadTrials up to its await
loadTrialsStart(p) ==
  /\ ~loadTrialsBusy
  /\ ~profileUnchanged(p)
  /\ ~missingConditions(p)
  /\ ~missingLocation(p)
  /\ callsIssued < MaxCalls
  /\ callsIssued' = callsIssued + 1
  /\ isFetchingRef' = TRUE
  /\ loading' = TRUE
  /\ error' = <<>>
  /\ LET condition == p.medicalConditions[1]
         city      == trim(splitComma0(p.location))
     IN  calls' = Append(calls,
                    Call("loadTrials", p, profileKey(p), <<>>,
                         searchTrials(condition, city,
                           [distance    |-> p.maxTravelDistance,
                            max_results |-> 30])))
  /\ UNCHANGED <<trials, currentIndex, matchedTrials, rejectedTrials,
                 isMountedRef, searchedProfileRef>>

\* a render of the mounted component with profile p whose effect
\* dependencies changed: the effect calls loadTrials, which closes over p
loadTrials(p) ==
  /\ isMountedRef
  /\ userProfile' = p
  /\ \/ loadTrialsSkip(p)
     \/ loadTrialsInvalid(p)
     \/ loadTrialsStart(p)
  /\ UNCHANGED pipelineVars

\* Array.isArray(trialsData) && trialsData.length > 0
nonEmptyArray(data) == data.isArray /\ data.items # <<>>

\* loadTrialsRanked without setCurrentIndex(0)
loadTrialsRanked_keepsCursor(c, data) ==
  /\ trials' = rankTrialsByMatchScore(data.items, c.userProfile)
  /\ matchedTrials' = <<>>
  /\ rejectedTrials' = <<>>
  /\ searchedProfileRef' = c.profileKey
  /\ UNCHANGED <<currentIndex, error>>

\* lines 290-303: the branch for a non-empty array, closure c, results data
loadTrialsRanked(c, data) ==
  /\ trials' = rankTrialsByMatchScore(data.items, c.userProfile)
  /\ currentIndex' = 0
  /\ matchedTrials' = <<>>
  /\ rejectedTrials' = <<>>
  /\ searchedProfileRef' = c.profileKey
  /\ UNCHANGED error

\* loadTrialsNoResults remembering the profile of the latest render
loadTrialsNoResults_storesKey ==
  /\ error' = <<ErrNoTrials>>
  /\ trials' = <<>>
  /\ searchedProfileRef' = profileKey(userProfile)
  /\ UNCHANGED <<currentIndex, matchedTrials, rejectedTrials>>

\* lines 304-308: the else branch
loadTrialsNoResults ==
  /\ error' = <<ErrNoTrials>>
  /\ trials' = <<>>
  /\ UNCHANGED <<currentIndex, matchedTrials, rejectedTrials,
                 searchedProfileRef>>

\* loadTrialsFailed without setTrials([])
loadTrialsFailed_keepsList ==
  IF isMountedRef
    THEN /\ error' = <<ErrFailedToLoad>>
         /\ UNCHANGED <<trials, currentIndex, matchedTrials, rejectedTrials,
                        searchedProfileRef>>
    ELSE UNCHANGED <<trials, currentIndex, error, matchedTrials,
                     rejectedTrials, searchedProfileRef>>

\* lines 309-314: catch (err)
loadTrialsFailed ==
  IF isMountedRef
    THEN /\ error' = <<ErrFailedToLoad>>
         /\ trials' = <<>>
         /\ UNCHANGED <<currentIndex, matchedTrials, rejectedTrials,
                        searchedProfileRef>>
    ELSE UNCHANGED <<trials, currentIndex, error, matchedTrials,
                     rejectedTrials, searchedProfileRef>>

\* loadTrialsFinally without isFetchingRef.current = false
loadTrialsFinally_flagKept ==
  /\ loading' = FALSE
  /\ UNCHANGED isFetchingRef

\* lines 315-318: finally
loadTrialsFinally ==
  /\ isFetchingRef' = FALSE
  /\ loading' = FALSE

\* if (!isMountedRef.current) return, after the await
unmountedDuringCall == ~isMountedRef

\* loadTrials from its await to its end, for the call at position i that
\* settles with outcome o
loadTrialsResume(i, o) ==
  /\ i \in 1..Len(calls)
  /\ calls[i].kind = "loadTrials"
  /\ LET c == calls[i]
     IN  IF o.status = "fulfilled"
           THEN IF unmountedDuringCall
                  THEN UNCHANGED <<trials, currentIndex, error, matchedTrials,
                                   rejectedTrials, searchedProfileRef>>
                  ELSE IF nonEmptyArray(o.data)
                         THEN IF rankThrows(o.data.items, c.userProfile)
                                THEN loadTrialsFailed
                                ELSE loadTrialsRanked(c, o.data)
                         ELSE loadTrialsNoResults
           ELSE loadTrialsFailed
  /\ loadTrialsFinally
  /\ calls' = RemoveAt(calls, i)
  /\ UNCHANGED <<userProfile, isMountedRef, callsIssued>>
  /\ UNCHANGED pipelineVars

\* the cleanup of the mount effect
unmount ==
  /\ isMountedRef
  /\ isMountedRef' = FALSE
  /\ UNCHANGED <<callsIssued, userProfile, trials, currentIndex, loading,
                 error,
                 matchedTrials, rejectedTrials, isFetchingRef,
                 searchedProfileRef, calls>>
  /\ UNCHANGED pipelineVars

(***************************************************************************)
(* TrialMatching: the swipe handlers and loadMoreTrials                    *)
(***************************************************************************)
\* handleSwipeLeft filing the trial in the accepted bucket
handleSwipeLeft_wrongBucket ==
  /\ isMountedRef
  /\ IF currentIndex < Len(trials)
       THEN /\ matchedTrials' = Append(matchedTrials, trials[currentIndex + 1])
            /\ currentIndex' = currentIndex + 1
            /\ UNCHANGED rejectedTrials
       ELSE UNCHANGED <<matchedTrials, rejectedTrials, currentIndex>>
  /\ UNCHANGED <<callsIssued, userProfile, trials, loading, error,
                 isMountedRef, isFetchingRef, searchedProfileRef, calls>>
  /\ UNCHANGED pipelineVars

handleSwipeLeft ==
  /\ isMountedRef
  /\ IF currentIndex < Len(trials)
       THEN /\ rejectedTrials' = Append(rejectedTrials, trials[currentIndex + 1])
            /\ currentIndex' = currentIndex + 1
       ELSE UNCHANGED <<rejectedTrials, currentIndex>>
  /\ UNCHANGED <<userProfile, trials, loading, error, matchedTrials,
                 isMountedRef, isFetchingRef, searchedProfileRef, calls,
                 callsIssued>>
  /\ UNCHANGED pipelineVars

\* handleSwipeRight without setMatchedTrials
handleSwipeRight_cursorOnly ==
  /\ isMountedRef
  /\ IF currentIndex < Len(trials)
       THEN currentIndex' = currentIndex + 1
       ELSE UNCHANGED currentIndex
  /\ UNCHANGED <<userProfile, trials, loading, error, matchedTrials,
                 rejectedTrials, isMountedRef, isFetchingRef,
                 searchedProfileRef, calls, callsIssued>>
  /\ UNCHANGED pipelineVars

\* the copy it appends to the matchedTrials entry of localStorage lives in
\* the profile store, which is not state of the component
handleSwipeRight ==
  /\ isMountedRef
  /\ IF currentIndex < Len(trials)
       THEN /\ matchedTrials' = Append(matchedTrials, trials[currentIndex + 1])
            /\ currentIndex' = currentIndex + 1
       ELSE UNCHANGED <<matchedTrials, currentIndex>>
  /\ UNCHANGED <<userProfile, trials, loading, error, rejectedTrials,
                 isMountedRef, isFetchingRef, searchedProfileRef, calls,
                 callsIssued>>
  /\ UNCHANGED pipelineVars

\* the render condition of the block that holds the Load More Trials button
loadMoreVisible ==
  /\ isMountedRef
  /\ ~loading
  /\ error = <<>>
  /\ Len(trials) > 0
  /\ currentIndex >= Len(trials)

\* loadMoreCondition with conditionIndex 0 whatever the accepted bucket holds
loadMoreCondition_alwaysFirst(p, matched) == p.medicalConditions[1]

\* medicalConditions[conditionIndex] || medicalConditions[0]
loadMoreCondition(p, matched) ==
  LET conditionIndex == IF Len(matched) > 0 THEN 1 ELSE 0
  IN  IF conditionIndex + 1 <= Len(p.medicalConditions)
           /\ p.medicalConditions[conditionIndex + 1] # <<>>
        THEN p.medicalConditions[conditionIndex + 1]
        ELSE p.medicalConditions[1]

\* loadMoreTrials up to its await; it closes over the userProfile,
\* matchedTrials and trials of the render that drew the button
loadMoreTrials ==
  /\ loadMoreVisible
  /\ Len(userProfile.medicalConditions) > 0
  /\ callsIssued < MaxCalls
  /\ callsIssued' = callsIssued + 1
  /\ loading' = TRUE
  /\ calls' = Append(calls,
                Call("loadMore", userProfile, <<>>, trials,
                     searchTrials(loadMoreCondition(userProfile, matchedTrials),
                                  userProfile.location,
                                  [distance    |-> userProfile.maxTravelDistance,
                                   max_results |-> 20])))
  /\ UNCHANGED <<userProfile, trials, currentIndex, error, matchedTrials,
                 rejectedTrials, isMountedRef, isFetchingRef,
                 searchedProfileRef>>
  /\ UNCHANGED pipelineVars

\* moreTrials.filter(t => !existingIds.has(t.id))
unseenTrials(moreTrials, known) ==
  SelectSeq(moreTrials,
            LAMBDA t : \A k \in 1..Len(known) : known[k].id # t.id)

\* loadMoreTrials from its await to its end, for the call at position i
\* that settles with outcome o
loadMoreResume(i, o) ==
  /\ i \in 1..Len(calls)
  /\ calls[i].kind = "loadMore"
  /\ LET c         == calls[i]
         newTrials == unseenTrials(o.data.items, c.trials)
     IN  IF o.status = "fulfilled" /\ nonEmptyArray(o.data)
           THEN IF newTrials # <<>>
                  THEN IF rankThrows(newTrials, c.userProfile)
                         THEN UNCHANGED <<trials, error>>
                         ELSE /\ trials' = c.trials \o
                                   rankTrialsByMatchScore(newTrials,
                                                          c.userProfile)
                              /\ UNCHANGED error
                  ELSE /\ error' = <<ErrNoMoreTrials>>
                       /\ UNCHANGED trials
           ELSE UNCHANGED <<trials, error>>
  \* finally
  /\ loading' = FALSE
  /\ calls' = RemoveAt(calls, i)
  /\ UNCHANGED <<userProfile, currentIndex, matchedTrials, rejectedTrials,
                 isMountedRef, isFetchingRef, searchedProfileRef,
                 callsIssued>>
  /\ UNCHANGED pipelineVars

(***************************************************************************)
(* The component and its environment                                       *)
(***************************************************************************)
Next ==
  \/ \E p \in Profiles : loadTrials(p)
  \/ \E i \in 1..MaxCalls, o \in Outcomes : loadTrialsResume(i, o)
  \/ unmount
  \/ handleSwipeLeft
  \/ handleSwipeRight
  \/ loadMoreTrials
  \/ \E i \in 1..MaxCalls, o \in Outcomes : loadMoreResume(i, o)

Spec == Init /\ [][Next]_vars

(***************************************************************************)
(* A caller of calculateMatchScore                                         *)
(***************************************************************************)
\* the state cells of the component, untouched by a call of the pipeline
componentVars ==
  <<userProfile, trials, currentIndex, loading, error, matchedTrials,
    rejectedTrials, isMountedRef, isFetchingRef, searchedProfileRef, calls,
    callsIssued>>

\* the component as constructed, for ProfileA
componentIdle ==
  /\ userProfile = ProfileA
  /\ trials = <<>>
  /\ currentIndex = 0
  /\ loading = TRUE
  /\ error = <<>>
  /\ matchedTrials = <<>>
  /\ rejectedTrials = <<>>
  /\ isMountedRef = TRUE
  /\ isFetchingRef = FALSE
  /\ searchedProfileRef = <<>>
  /\ calls = <<>>
  /\ callsIssued = 0

\* what a call hands back: the value of its return statement, or the
\* TypeError it raised
Returned(v) == [threw |-> FALSE, value |-> v]
Thrown      == [threw |-> TRUE, value |-> <<>>]

\* trial.distance: absent, or a multiple of 10 from -10 to 10 * MaxDistance
MaxDistance == 6
scoreDistances == {<<>>} \cup {<<10 * k>> : k \in (-1)..MaxDistance}

\* trial.compensation.amount: absent, or a multiple of 48 from -48 to
\* 48 * MaxAmount
MaxAmount == 3
scoreAmounts == {<<>>} \cup {<<48 * k>> : k \in (-1)..MaxAmount}

\* trial.compensation: absent, or { has_compensation, amount? }
scoreCompensations ==
  {<<>>} \cup {<<[has_compensation |-> h, amount |-> a]>> :
                 h \in BOOLEAN, a \in scoreAmounts}

\* a trial for another condition, gender and age group than ProfileA's
TrialNoMatch ==
  [Trial2 EXCEPT !.id = "NCT0",
                 !.age_range = <<[min |-> <<s65Years>>, max |-> <<sNA>>]>>]

\* the trials scored: one that matches the profiles on condition, gender and
\* age and one that matches on none, with every distance and compensation
ScoreTrials ==
  {[b EXCEPT !.distance = d, !.compensation = c] :
     b \in {Trial1, TrialNoMatch}, d \in scoreDistances,
     c \in scoreCompensations}

\* the profiles scored against: a woman of 30 with asthma, with a maximum
\* travel distance of 50 or 0 and a preferred compensation absent, 0 or 100
ScoreProfiles ==
  {[ProfileA EXCEPT !.medicalConditions = <<sAsthma>>,
                    !.maxTravelDistance = m,
                    !.preferredCompensation = c] :
     m \in {0, 50}, c \in {<<>>, <<0>>, <<100>>}}

InitScore ==
  /\ componentIdle
  /\ argProfile \in ScoreProfiles
  /\ argTrial \in ScoreTrials
  /\ argTrials = <<>>
  /\ callee = "none"
  /\ returnValue = <<>>

\* the call calculateMatchScore(argProfile, argTrial)
callCalculateMatchScore ==
  /\ callee = "none"
  /\ callee' = "calculateMatchScore"
  /\ returnValue' = <<IF scoreThrows(argProfile, argTrial)
                        THEN Thrown
                        ELSE Returned(calculateMatchScore(argProfile, argTrial))>>
  /\ UNCHANGED <<argProfile, argTrial, argTrials>>
  /\ UNCHANGED componentVars

NextScore == callCalculateMatchScore

SpecScore == InitScore /\ [][NextScore]_vars

(***************************************************************************)
(* A caller of filterTrialsByAllergies and rankTrialsByMatchScore          *)
(***************************************************************************)
sPeanut  == <<"p","e","a","n","u","t">>
sPeanuts == <<"p","e","a","n","u","t","s">>
sBlank   == <<" ">>
sAllergicToPeanut == <<"A","l","l","e","r","g","i","c"," ","t","o"," ",
                       "P","e","a","n","u","t">>
sNoAllergyToPeanuts == <<"N","o"," ","a","l","l","e","r","g","y"," ","t","o",
                         " ","p","e","a","n","u","t","s">>
sPeanutFree == <<"p","e","a","n","u","t"," ","f","r","e","e">>

\* Trial2 under another id, with criteria that name the allergy
Trial4 ==
  [Trial2 EXCEPT !.id = "NCT4",
                 !.eligibilityCriteria = <<sAllergicToPeanut>>]
\* Trial3 under another id and at distance 0, with a substance without name
\* and criteria that mention the allergen outside the two phrases
Trial5 ==
  [Trial3 EXCEPT !.id = "NCT5",
                 !.distance = <<0>>,
                 !.eligibilityCriteria = <<sPeanutFree>>,
                 !.substancesUsed = <<(<<[name |-> <<>>]>>)>>]
\* Trial3 under another id, with criteria that name the allergy in the plural
Trial6 ==
  [Trial3 EXCEPT !.id = "NCT6",
                 !.eligibilityCriteria = <<sNoAllergyToPeanuts>>]

RankTrials == {Trial1, Trial2, Trial3, Trial4, Trial5, Trial6}

\* the longest trials array handed to the pipeline
MaxTrials == 3
TrialLists == UNION {[1..n -> RankTrials] : n \in 0..MaxTrials}

\* ProfileA with each allergy list and a maximum travel distance of 50 or 0
RankProfiles ==
  {[ProfileA EXCEPT !.allergies = a, !.maxTravelDistance = m] :
     a \in {<<>>, <<sPeanut>>, <<sPeanuts>>, <<sPeanutA>>, <<sBlank>>},
     m \in {0, 50}}

InitRank ==
  /\ componentIdle
  /\ argProfile \in RankProfiles
  /\ argTrial = Trial1
  /\ argTrials \in TrialLists
  /\ callee = "none"
  /\ returnValue = <<>>

\* the caller's array after filterTrialsByAllergies(ts, allergies): the
\* function and its callback only read ts and its records
inputAfterFilter(ts, allergies) == ts

\* the call filterTrialsByAllergies(argTrials, argProfile.allergies)
callFilterTrialsByAllergies ==
  /\ callee = "none"
  /\ callee' = "filterTrialsByAllergies"
  /\ returnValue' =
       <<Returned(filterTrialsByAllergies(argTrials, argProfile.allergies))>>
  /\ argTrials' = inputAfterFilter(argTrials, argProfile.allergies)
  /\ UNCHANGED <<argProfile, argTrial>>
  /\ UNCHANGED componentVars

\* inputAfterRank for a function that sets matchScore on the records it was
\* given and sorts filteredTrials in place
inputAfterRank_inPlace(ts, profile) ==
  IF profile.allergies = <<>> /\ ~rankThrows(ts, profile)
    THEN rankTrialsByMatchScore(ts, profile)
    ELSE ts

\* the caller's array after rankTrialsByMatchScore(ts, profile): map builds
\* a new array of new records ({ ...trial, matchScore }) and sort reorders
\* that array
inputAfterRank(ts, profile) == ts

\* the call rankTrialsByMatchScore(argTrials, argProfile)
callRankTrialsByMatchScore ==
  /\ callee = "none"
  /\ callee' = "rankTrialsByMatchScore"
  /\ returnValue' = <<IF rankThrows(argTrials, argProfile)
                        THEN Thrown
                        ELSE Returned(rankTrialsByMatchScore(argTrials,
                                                             argProfile))>>
  /\ argTrials' = inputAfterRank(argTrials, argProfile)
  /\ UNCHANGED <<argProfile, argTrial>>
  /\ UNCHANGED componentVars

NextRank ==
  \/ callFilterTrialsByAllergies
  \/ callRankTrialsByMatchScore

SpecRank == InitRank /\ [][NextRank]_vars

(***************************************************************************)
(* A caller that hands partially populated trial records to the scorer and *)
(* the filter                                                              *)
(***************************************************************************)
\* trial.age_range: absent, or a record in which min or max may be absent
partialAgeRanges ==
  {<<>>} \cup {<<[min |-> lo, max |-> hi]>> :
                 lo \in {<<>>, <<s18Years>>}, hi \in {<<>>, <<s65Years>>}}

\* records with any subset of conditions, gender, age_range, distance,
\* compensation, substancesUsed and eligibilityCriteria missing
PartialTrials ==
  {[id |-> "NCT7", conditions |-> c, gender |-> g, age_range |-> a,
    distance |-> d, compensation |-> m, eligibilityCriteria |-> e,
    substancesUsed |-> u, matchScore |-> <<>>] :
     c \in {<<>>, <<(<<sAsthma>>)>>},
     g \in {<<>>, <<sAllG>>},
     a \in partialAgeRanges,
     d \in {<<>>, <<10>>},
     m \in {<<>>, <<[has_compensation |-> TRUE, amount |-> <<96>>]>>},
     e \in {<<>>, <<sAllergicToPeanut>>},
     u \in {<<>>, <<(<<[name |-> sPeanutExtract]>>)>>}}

\* ProfileA without and with an allergy, and with a preferred compensation
PartialProfiles ==
  {[ProfileA EXCEPT !.allergies = a, !.preferredCompensation = <<100>>] :
     a \in {<<>>, <<sPeanut>>}}

InitPartial ==
  /\ componentIdle
  /\ argProfile \in PartialProfiles
  /\ argTrial \in PartialTrials
  /\ argTrials = <<argTrial>>
  /\ callee = "none"
  /\ returnValue = <<>>

NextPartial ==
  \/ callCalculateMatchScore
  \/ callFilterTrialsByAllergies

SpecPartial == InitPartial /\ [][NextPartial]_vars

(***************************************************************************)
(* Properties of the orchestrator                                          *)
(***************************************************************************)

\* C1: in every reachable state at most one call to the search collaborator
\* is outstanding.
C1_AtMostOneOutstanding == Len(calls) <= 1

\* C2: a profile-change trigger that arrives while a profile-triggered
\* search with the same fingerprint is in flight issues no call: the calls
\* in flight and the number of calls issued stay as they are, and exactly
\* one profile-triggered call is in flight afterwards.
C2_NoDuplicateSearch ==
  [][\A p \in Profiles :
       (/\ \E i \in 1..Len(calls) : /\ calls[i].kind = "loadTrials"
                                    /\ calls[i].profileKey = profileKey(p)
        /\ loadTrials(p))
       => /\ calls' = calls
          /\ callsIssued' = callsIssued
          /\ Cardinality({i \in 1..Len(calls') :
                            calls'[i].kind = "loadTrials"}) = 1]_vars

\* C2 witness: one call has been issued, it is in flight for the fingerprint
\* of the current profile, and the current profile is another object than
\* the one the call was issued for (the second trigger has arrived).
C2_Witness ==
  /\ callsIssued = 1
  /\ Len(calls) = 1
  /\ calls[1].kind = "loadTrials"
  /\ calls[1].profileKey = profileKey(userProfile)
  /\ calls[1].userProfile # userProfile

\* C3: the in-flight flag is true exactly while a profile-triggered call is
\* in flight (set before the call is issued, never stuck afterwards), and
\* every step that settles such a call, whatever the outcome and whether or
\* not the component is still mounted, leaves the flag false.
C3_FlagClearedWhenSettled ==
  /\ [](isFetchingRef <=>
          \E i \in 1..Len(calls) : calls[i].kind = "loadTrials")
  /\ [][\A i \in 1..Len(calls), o \in Outcomes :
          loadTrialsResume(i, o) => ~isFetchingRef']_vars

\* C3 witness: a profile-triggered call has settled by a thrown failure and
\* the flag is false.
C3_Witness ==
  /\ error = <<ErrFailedToLoad>>
  /\ calls = <<>>
  /\ ~isFetchingRef

\* C4: a trigger whose fingerprint equals the stored fingerprint issues no
\* call and leaves the result list, cursor, buckets, error, in-flight flag
\* and stored fingerprint unchanged, whatever profile object carries it.
C4_UnchangedFingerprintSkips ==
  [][\A p \in Profiles :
       (profileKey(p) = searchedProfileRef /\ loadTrials(p))
       => /\ calls' = calls
          /\ callsIssued' = callsIssued
          /\ UNCHANGED <<trials, currentIndex, matchedTrials, rejectedTrials,
                         error, isFetchingRef, searchedProfileRef>>]_vars

\* C4 witness: the list on display was ranked for ProfileA, the current
\* profile is the distinct object ProfileA2 with the stored fingerprint, and
\* nothing is in flight.
C4_Witness ==
  /\ userProfile = ProfileA2
  /\ searchedProfileRef = profileKey(ProfileA2)
  /\ trials = rankTrialsByMatchScore(<<Trial2, Trial1>>, ProfileA)
  /\ trials # rankTrialsByMatchScore(<<Trial2, Trial1>>, ProfileA2)
  /\ calls = <<>>
  /\ callsIssued = 1

\* C5: a trigger that is not skipped (the component is mounted, no
\* profile-triggered search is in flight, the fingerprint is new) and whose
\* profile has no conditions or no location sets the error to the matching
\* reason and stops: no call is issued, the in-flight flag stays false and
\* the stored fingerprint is unchanged.
C5_InvalidProfileReported ==
  [][\A p \in Profiles :
       (/\ isMountedRef /\ ~isFetchingRef
        /\ profileKey(p) # searchedProfileRef
        /\ (p.medicalConditions = <<>> \/ p.location = <<>>)
        /\ loadTrials(p))
       => /\ error' = IF p.medicalConditions = <<>>
                        THEN <<ErrMissingConditions>>
                        ELSE <<ErrMissingLocation>>
          /\ calls' = calls
          /\ callsIssued' = callsIssued
          /\ ~isFetchingRef'
          /\ searchedProfileRef' = searchedProfileRef]_vars

\* C5 witness: the profile without a location has been reported and no call
\* was ever issued.
C5_Witness ==
  /\ userProfile = ProfileNoLocation
  /\ error = <<ErrMissingLocation>>
  /\ ~loading
  /\ callsIssued = 0

\* C6: when a profile-triggered search settles with a non-empty array while
\* the component is mounted, the list becomes rank(results, searched
\* profile), the cursor 0, both buckets empty and the stored fingerprint the
\* fingerprint of the searched profile.
C6_SuccessPublishesRanking ==
  [][\A i \in 1..Len(calls), o \in Outcomes :
       (/\ isMountedRef
        /\ o.status = "fulfilled"
        /\ o.data.isArray /\ Len(o.data.items) > 0
        /\ loadTrialsResume(i, o))
       => /\ trials' = rankTrialsByMatchScore(o.data.items,
                                              calls[i].userProfile)
          /\ currentIndex' = 0
          /\ matchedTrials' = <<>>
          /\ rejectedTrials' = <<>>
          /\ searchedProfileRef' =
               <<calls[i].userProfile.medicalConditions,
                 calls[i].userProfile.location,
                 calls[i].userProfile.allergies,
                 calls[i].userProfile.maxTravelDistance>>]_vars

\* C6 witness: a second search has replaced a reviewed list: the list is the
\* ranking for ProfileB (Trial1 filtered out), cursor 0, buckets empty.
C6_Witness ==
  /\ callsIssued = 2
  /\ calls = <<>>
  /\ searchedProfileRef = profileKey(ProfileB)
  /\ Len(trials) = 1
  /\ trials[1].id = "NCT2"
  /\ currentIndex = 0
  /\ matchedTrials = <<>>
  /\ rejectedTrials = <<>>

\* C7: when a profile-triggered search settles with an empty array or with
\* something that is no array while the component is mounted, the error is
\* set to "no trials found", the stored fingerprint keeps its value, and
\* that value differs from the fingerprint searched while the flag is
\* clear and the component mounted, so that a later trigger with the same
\* (searchable) profile passes every test of loadTrials and issues a call.
C7_EmptyResultKeepsFingerprint ==
  [][\A i \in 1..Len(calls), o \in Outcomes :
       (/\ isMountedRef
        /\ o.status = "fulfilled"
        /\ ~(o.data.isArray /\ Len(o.data.items) > 0)
        /\ loadTrialsResume(i, o))
       => /\ error' = <<ErrNoTrials>>
          /\ searchedProfileRef' = searchedProfileRef
          /\ searchedProfileRef' # profileKey(calls[i].userProfile)
          /\ ~isFetchingRef'
          /\ isMountedRef'
          /\ calls[i].userProfile.medicalConditions # <<>>
          /\ calls[i].userProfile.location # <<>>]_vars

\* C7 witness: the empty-result error is on display for a current profile
\* whose fingerprint is not the stored one.
C7_Witness ==
  /\ error = <<ErrNoTrials>>
  /\ calls = <<>>
  /\ trials = <<>>
  /\ isMountedRef
  /\ ~missingConditions(userProfile) /\ ~missingLocation(userProfile)
  /\ searchedProfileRef # profileKey(userProfile)

C9_NoChangeAfterTeardown ==
  [][~isMountedRef
       => UNCHANGED <<trials, currentIndex, matchedTrials, rejectedTrials,
                      error, loading, searchedProfileRef>>]_vars

\* C10: handleSwipeRight (accept) and handleSwipeLeft (reject): with the
\* cursor below the length of the list the trial at the cursor is appended
\* to the bucket of the direction, the cursor grows by 1, and the other
\* bucket and the list are unchanged; otherwise nothing changes.
C10_AdvanceMovesOneTrial ==
  [][/\ handleSwipeRight =>
          IF currentIndex < Len(trials)
            THEN /\ matchedTrials' = matchedTrials \o <<trials[currentIndex + 1]>>
                 /\ currentIndex' = currentIndex + 1
                 /\ rejectedTrials' = rejectedTrials
                 /\ trials' = trials
            ELSE UNCHANGED vars
     /\ handleSwipeLeft =>
          IF currentIndex < Len(trials)
            THEN /\ rejectedTrials' = rejectedTrials \o <<trials[currentIndex + 1]>>
                 /\ currentIndex' = currentIndex + 1
                 /\ matchedTrials' = matchedTrials
                 /\ trials' = trials
            ELSE UNCHANGED vars]_vars

\* C10 witness: a list of two has been reviewed to its end, the first trial
\* accepted and the second rejected.
C10_Witness ==
  /\ Len(trials) = 2
  /\ currentIndex = 2
  /\ matchedTrials = <<trials[1]>>
  /\ rejectedTrials = <<trials[2]>>

\* C11: every trial that a loadMore response adds to the result list has an
\* id different from the id of every trial of the result list the addition
\* is applied to.
C11_LoadMoreAddsNoKnownId ==
  [][\A i \in 1..Len(calls) : \A o \in Outcomes :
       (trials' # trials /\ loadMoreResume(i, o))
       => LET added == rankTrialsByMatchScore(
                         unseenTrials(o.data.items, calls[i].trials),
                         calls[i].userProfile)
          IN  \A a \in 1..Len(added) : \A k \in 1..Len(trials) :
                trials[k].id # added[a].id]_vars

\* C12 as stated: when a loadMore response is applied, the result list of
\* that moment is a prefix of the new list, the newly ranked unseen trials
\* follow it, and cursor, buckets and stored fingerprint are unchanged.
C12_LoadMoreAppends ==
  [][\A i \in 1..Len(calls) : \A o \in Outcomes :
       (trials' # trials /\ loadMoreResume(i, o))
       => /\ Len(trials') > Len(trials)
          /\ SubSeq(trials', 1, Len(trials)) = trials
          /\ SubSeq(trials', Len(trials) + 1, Len(trials'))
               = rankTrialsByMatchScore(
                   unseenTrials(o.data.items, calls[i].trials),
                   calls[i].userProfile)
          /\ UNCHANGED <<currentIndex, matchedTrials, rejectedTrials,
                         searchedProfileRef>>]_vars

(***************************************************************************)
(* Properties of calculateMatchScore                                       *)
(***************************************************************************)

\* C13: for every profile and trial, distance 0, negative or at or above
\* the maximum, a maximum travel distance of 0 and any compensation amount
\* included, calculateMatchScore returns a number from 0 to 1.
C13_ScoreInUnitInterval ==
  callee = "calculateMatchScore"
    => /\ ~returnValue[1].threw
       /\ LET score == returnValue[1].value
          IN  /\ score.k = "fin"
              /\ ~NumLess(score, Fin(0, 1))
              /\ ~NumLess(Fin(1, 1), score)

\* C14 as stated: a trial that matches the profile on condition, gender and
\* age and has no distance and no compensation, scored against a profile
\* without preferred compensation, scores 50/80.
C14_Original ==
  (/\ callee = "calculateMatchScore"
   /\ argProfile.preferredCompensation = <<>>
   /\ argTrial.distance = <<>>
   /\ argTrial.compensation = <<>>
   /\ conditionMatch(argProfile, argTrial)
   /\ genderMatch(argProfile, argTrial)
   /\ ageMatch(argProfile, argTrial))
    => /\ ~returnValue[1].threw
       /\ LET score == returnValue[1].value
          IN  score = Fin(50, 80)

\* C14 amended: such a trial scores 80/100 = 0.8: the 50, 15 and 15 points
\* of condition, gender and age over the weights 50, 15, 15 and 20.
C14_MatchWithoutDistanceScores ==
  (/\ callee = "calculateMatchScore"
   /\ argProfile.preferredCompensation = <<>>
   /\ argTrial.distance = <<>>
   /\ argTrial.compensation = <<>>
   /\ conditionMatch(argProfile, argTrial)
   /\ genderMatch(argProfile, argTrial)
   /\ ageMatch(argProfile, argTrial))
    => /\ ~returnValue[1].threw
       /\ LET score == returnValue[1].value
          IN  score = Fin(80, 100)

\* C14 witness: the asthma trial for all genders and ages 18 to 65, without
\* distance and compensation, has been scored for the profile without
\* preferred compensation.
C14_Witness ==
  /\ callee = "calculateMatchScore"
  /\ argProfile.preferredCompensation = <<>>
  /\ argTrial.id = "NCT1"
  /\ argTrial.distance = <<>>
  /\ argTrial.compensation = <<>>
  /\ returnValue = <<Returned(Fin(80, 100))>>

\* C15: the location block.  With maxTravelDistance 50 a trial at distance
\* 0 earns 20 points, at distance 50 earns 5 and at distance 60 earns 0.  In
\* general a trial with distance <= maxTravelDistance earns
\* max(5, 20 * (1 - distance/maxTravelDistance)), a trial over the maximum or
\* without distance earns 0, and the denominator always holds the weight 20:
\* the returned score is the points of the other blocks plus these points,
\* over the weights of the other blocks plus 20.
C15_LocationPoints ==
  callee = "calculateMatchScore" =>
    LET d == argTrial.distance
        m == argProfile.maxTravelDistance
        otherPoints ==
          NumAdd(Fin((IF conditionMatch(argProfile, argTrial) THEN 50 ELSE 0)
                       + (IF genderMatch(argProfile, argTrial) THEN 15 ELSE 0)
                       + (IF ageMatch(argProfile, argTrial) THEN 15 ELSE 0), 1),
                 IF compensationApplies(argProfile)
                   THEN compensationPoints(argProfile, argTrial)
                   ELSE Fin(0, 1))
        otherWeights ==
          50 + 15 + 15 + (IF compensationApplies(argProfile) THEN 10 ELSE 0)
        \* max(5, 20 * (1 - distance/maxTravelDistance))
        proximity ==
          CASE m > 0 -> IF 20 * (m - d[1]) >= 5 * m
                          THEN Fin(20 * (m - d[1]), m)
                          ELSE Fin(5, 1)
            [] m = 0 /\ d[1] = 0 -> NaN
            [] m = 0 /\ d[1] < 0 -> PInf
            [] OTHER -> Fin(5, 1)
        earned == IF d # <<>> /\ d[1] <= m THEN proximity ELSE Fin(0, 1)
        scoreWith(points) ==
          NumDivInt(NumAdd(otherPoints, points), otherWeights + 20)
        score == returnValue[1].value
    IN  /\ ~returnValue[1].threw
        /\ score = scoreWith(earned)
        /\ (m = 50 /\ d = <<0>>)  => score = scoreWith(Fin(20, 1))
        /\ (m = 50 /\ d = <<50>>) => score = scoreWith(Fin(5, 1))
        /\ (m = 50 /\ d = <<60>>) => score = scoreWith(Fin(0, 1))

\* C15 witness: a trial that matches nothing, at distance 50 of a maximum
\* of 50, has scored the floor of 5 points over 100.
C15_Witness ==
  /\ callee = "calculateMatchScore"
  /\ argProfile.maxTravelDistance = 50
  /\ argProfile.preferredCompensation = <<>>
  /\ argTrial.id = "NCT0"
  /\ argTrial.distance = <<50>>
  /\ returnValue = <<Returned(Fin(5, 100))>>

\* C16 as stated: the compensation block.  Without a positive preferred
\* compensation it adds nothing to the points and nothing to the
\* denominator.  With one, 10 is added to the denominator, and the trial
\* earns 10 if its compensation is enabled and its amount is at least the
\* preferred one, otherwise min(9, 10 * amount/preferred), the amount being 0
\* for a trial without compensation info.
C16_Original ==
  callee = "calculateMatchScore" =>
    LET c == argTrial.compensation
        applies == /\ argProfile.preferredCompensation # <<>>
                   /\ argProfile.preferredCompensation[1] > 0
        preferred == argProfile.preferredCompensation[1]
        enabled == c # <<>> /\ c[1].has_compensation
        amount == IF c # <<>> /\ c[1].amount # <<>> THEN c[1].amount[1] ELSE 0
        earned ==
          IF enabled /\ amount >= preferred
            THEN Fin(10, 1)
            ELSE IF 10 * amount > 9 * preferred
                   THEN Fin(9, 1)
                   ELSE Fin(10 * amount, preferred)
        otherPoints ==
          NumAdd(Fin((IF conditionMatch(argProfile, argTrial) THEN 50 ELSE 0)
                       + (IF genderMatch(argProfile, argTrial) THEN 15 ELSE 0)
                       + (IF ageMatch(argProfile, argTrial) THEN 15 ELSE 0), 1),
                 locationPoints(argProfile, argTrial))
        score == returnValue[1].value
    IN  /\ ~returnValue[1].threw
        /\ score = IF applies
                     THEN NumDivInt(NumAdd(otherPoints, earned), 100 + 10)
                     ELSE NumDivInt(otherPoints, 100)

\* C16 amended: with a positive preferred compensation 10 is added to the
\* denominator, and the trial earns points only if its compensation is
\* enabled and its amount is present and not 0: then 10 if the amount is at
\* least the preferred one and min(9, 10 * amount/preferred) otherwise.  A
\* trial whose compensation is absent, not enabled or without amount earns 0.
C16_CompensationPoints ==
  callee = "calculateMatchScore" =>
    LET c == argTrial.compensation
        applies == /\ argProfile.preferredCompensation # <<>>
                   /\ argProfile.preferredCompensation[1] > 0
        preferred == argProfile.preferredCompensation[1]
        counted == /\ c # <<>>
                   /\ c[1].has_compensation
                   /\ c[1].amount # <<>>
                   /\ c[1].amount[1] # 0
        amount == c[1].amount[1]
        earned ==
          IF counted
            THEN IF amount >= preferred
                   THEN Fin(10, 1)
                   ELSE IF 10 * amount > 9 * preferred
                          THEN Fin(9, 1)
                          ELSE Fin(10 * amount, preferred)
            ELSE Fin(0, 1)
        otherPoints ==
          NumAdd(Fin((IF conditionMatch(argProfile, argTrial) THEN 50 ELSE 0)
                       + (IF genderMatch(argProfile, argTrial) THEN 15 ELSE 0)
                       + (IF ageMatch(argProfile, argTrial) THEN 15 ELSE 0), 1),
                 locationPoints(argProfile, argTrial))
        score == returnValue[1].value
    IN  /\ ~returnValue[1].threw
        /\ score = IF applies
                     THEN NumDivInt(NumAdd(otherPoints, earned), 100 + 10)
                     ELSE NumDivInt(otherPoints, 100)

\* C16 witness: a trial that matches nothing, without distance, whose
\* compensation of 96 is not enabled, has scored 0 for a preferred
\* compensation of 100.
C16_Witness ==
  /\ callee = "calculateMatchScore"
  /\ argProfile.preferredCompensation = <<100>>
  /\ argTrial.id = "NCT0"
  /\ argTrial.distance = <<>>
  /\ argTrial.compensation = <<[has_compensation |-> FALSE, amount |-> <<96>>]>>
  /\ returnValue = <<Returned(Fin(0, 110))>>

(***************************************************************************)
(* Properties of filterTrialsByAllergies and rankTrialsByMatchScore        *)
(***************************************************************************)

\* C17: for a non-empty allergy list the filter leaves a trial out of its
\* result if and only if (a) the lower-cased name of a substance of the
\* trial that has a name contains a lower-cased and trimmed allergen, or
\* (b) the lower-cased criteria text contains "allergy to <allergen>" or
\* "allergic to <allergen>".  A trial without substances and criteria is
\* kept.  A trial whose only substance is "Peanut Extract" is left out for
\* "peanut" and kept for "peanuts".
C17_ExcludedIffAllergenNamed ==
  (callee = "filterTrialsByAllergies" /\ argProfile.allergies # <<>>) =>
    LET allergies == argProfile.allergies
        result == returnValue[1].value
        allergen(j) == trim(toLowerCase(allergies[j]))
        bySubstance(t) ==
          /\ t.substancesUsed # <<>>
          /\ \E i \in 1..Len(t.substancesUsed[1]) :
               /\ t.substancesUsed[1][i].name # <<>>
               /\ \E j \in 1..Len(allergies) :
                    includes(toLowerCase(t.substancesUsed[1][i].name),
                             allergen(j))
        byCriteria(t) ==
          /\ t.eligibilityCriteria # <<>>
          /\ \E j \in 1..Len(allergies) :
               \/ includes(toLowerCase(t.eligibilityCriteria[1]),
                           <<"a","l","l","e","r","g","y"," ","t","o"," ">>
                             \o allergen(j))
               \/ includes(toLowerCase(t.eligibilityCriteria[1]),
                           <<"a","l","l","e","r","g","i","c"," ","t","o"," ">>
                             \o allergen(j))
        returned(t) == \E k \in 1..Len(result) : result[k] = t
    IN  /\ ~returnValue[1].threw
        /\ \A i \in 1..Len(argTrials) :
             LET t == argTrials[i]
             IN  /\ ~returned(t) <=> (bySubstance(t) \/ byCriteria(t))
                 /\ (t.substancesUsed = <<>> /\ t.eligibilityCriteria = <<>>)
                      => returned(t)
                 /\ (/\ t.substancesUsed = <<(<<[name |-> sPeanutExtract]>>)>>
                     /\ t.eligibilityCriteria = <<>>)
                      => /\ allergies = <<sPeanut>> => ~returned(t)
                         /\ allergies = <<sPeanuts>> => returned(t)

\* C17 witness: for the allergen "peanut" the filter has left out the trial
\* with the substance "Peanut Extract" and the trial whose criteria say
\* "Allergic to Peanut", and kept the trial whose criteria say "peanut free".
C17_Witness ==
  /\ callee = "filterTrialsByAllergies"
  /\ argProfile.allergies = <<sPeanut>>
  /\ argTrials = <<Trial1, Trial5, Trial4>>
  /\ returnValue = <<Returned(<<Trial5>>)>>

\* C18: a call of the filter returns the surviving trials in their input
\* order (the result is the input with the records at some positions taken
\* out), leaves the caller's array and its records as they were, and for an
\* empty allergy list returns a list equal to the input.
C18_FilterKeepsOrderAndInput ==
  [][callFilterTrialsByAllergies =>
       LET result == returnValue'[1].value
           norm == normalizedAllergies(argProfile.allergies)
           kept == {i \in 1..Len(argTrials) :
                      argProfile.allergies = <<>> \/ KeepTrial(argTrials[i], norm)}
       IN  /\ argTrials' = argTrials
           /\ Len(result) = Cardinality(kept)
           /\ \A i \in kept :
                result[Cardinality({j \in kept : j <= i})] = argTrials[i]
           /\ argProfile.allergies = <<>> => result = argTrials]_vars

\* C18 witness: the filter has taken the middle trial of three out and
\* returned the other two in their order.
C18_Witness ==
  /\ callee = "filterTrialsByAllergies"
  /\ argProfile.allergies = <<sPeanutA>>
  /\ argTrials = <<Trial3, Trial1, Trial2>>
  /\ returnValue = <<Returned(<<Trial3, Trial2>>)>>

\* C19: the list rankTrialsByMatchScore returns is in non-increasing order
\* of matchScore (each score is greater than or equal to the next one), and
\* the sort is stable: the returned trials that share a score stand in the
\* order in which they stand among the survivors of the input.
C19_SortedStable ==
  callee = "rankTrialsByMatchScore" =>
    LET result == returnValue[1].value
        scoreOf(t) == t.matchScore[1]
        geq(x, y) == x.k # "nan" /\ y.k # "nan" /\ ~NumLess(x, y)
        survivors == filterTrialsByAllergies(argTrials, argProfile.allergies)
        unscored(ts) == [i \in 1..Len(ts) |-> [ts[i] EXCEPT !.matchScore = <<>>]]
    IN  /\ ~returnValue[1].threw
        /\ \A i \in 1..(Len(result) - 1) :
             geq(scoreOf(result[i]), scoreOf(result[i + 1]))
        /\ \A k \in 1..Len(result) :
             unscored(SelectSeq(result,
                                LAMBDA t : scoreOf(t) = scoreOf(result[k])))
               = SelectSeq(survivors,
                           LAMBDA t : calculateMatchScore(argProfile, t)
                                        = scoreOf(result[k]))

\* C20: a call of rankTrialsByMatchScore returns exactly the trials that
\* survive filterTrialsByAllergies(trials, profile.allergies), each with
\* matchScore set to calculateMatchScore(profile, trial), in a new list: the
\* caller's array keeps its length and order and none of its records gains
\* or changes a matchScore.
C20_RankScoresSurvivorsOnly ==
  [][callRankTrialsByMatchScore =>
       LET result == returnValue'[1].value
           survivors == filterTrialsByAllergies(argTrials, argProfile.allergies)
           n == Len(survivors)
           scored(t) ==
             [t EXCEPT !.matchScore = <<calculateMatchScore(argProfile, t)>>]
       IN  /\ ~returnValue'[1].threw
           /\ Len(result) = n
           /\ \E p \in [1..n -> 1..n] :
                /\ \A i, j \in 1..n : p[i] = p[j] => i = j
                /\ \A i \in 1..n : result[p[i]] = scored(survivors[i])
           /\ Len(argTrials') = Len(argTrials)
           /\ \A i \in 1..Len(argTrials) :
                /\ argTrials'[i] = argTrials[i]
                /\ argTrials'[i].matchScore = argTrials[i].matchScore]_vars

\* C20 witness: of three trials the one with the peanut substance has been
\* left out, the other two have been returned with their scores, best
\* first, and the caller's array is as it was.
C20_Witness ==
  /\ callee = "rankTrialsByMatchScore"
  /\ argProfile.allergies = <<sPeanut>>
  /\ argProfile.maxTravelDistance = 50
  /\ argTrials = <<Trial2, Trial1, Trial3>>
  /\ returnValue =
       <<Returned(<<[Trial3 EXCEPT !.matchScore = <<Fin(85, 100)>>],
                    [Trial2 EXCEPT !.matchScore = <<Fin(65, 100)>>]>>)>>

(***************************************************************************)
(* Properties of the pipeline for partially populated records              *)
(***************************************************************************)

\* C21: for a trial record with any subset of conditions, gender, age
\* range, distance, compensation, substances and criteria text missing,
\* calculateMatchScore and filterTrialsByAllergies return a value and
\* raise no error.
C21_NeverThrows ==
  callee \in {"calculateMatchScore", "filterTrialsByAllergies"}
    => ~returnValue[1].threw

(***************************************************************************)
(* Further properties of the orchestrator                                  *)
(***************************************************************************)

\* C22 as stated: loadMoreTrials sends its query with the second condition
\* of the profile when the accepted bucket is non-empty at the call, and
\* with the first condition when the bucket is empty.
C22_Original ==
  [][loadMoreTrials =>
       LET sent == calls'[Len(calls')].params.condition
           conditions == userProfile.medicalConditions
       IN  IF matchedTrials # <<>>
             THEN Len(conditions) >= 2 /\ sent = conditions[2]
             ELSE sent = conditions[1]]_vars

\* C22 amended: loadMoreTrials sends its query with the second condition
\* of the profile when the accepted bucket is non-empty at the call and the
\* profile has a second condition, and with the first condition when the
\* bucket is empty or the profile has one condition only.
C22_SecondaryConditionIfAny ==
  [][loadMoreTrials =>
       LET sent == calls'[Len(calls')].params.condition
           conditions == userProfile.medicalConditions
       IN  /\ calls'[Len(calls')].kind = "loadMore"
           /\ IF matchedTrials # <<>> /\ Len(conditions) >= 2
                THEN sent = conditions[2]
                ELSE sent = conditions[1]]_vars

\* C22 witness: with a trial in the accepted bucket a loadMore query for
\* the second condition of the profile, flu, is in flight.
C22_Witness ==
  /\ matchedTrials # <<>>
  /\ Len(userProfile.medicalConditions) >= 2
  /\ \E i \in 1..Len(calls) :
       /\ calls[i].kind = "loadMore"
       /\ calls[i].userProfile = userProfile
       /\ calls[i].params.condition = sFlu

\* C23: in every reachable state the cursor is an index into the result
\* list or one past its end: 0 <= currentIndex <= length of trials.
C23_CursorWithinList == currentIndex >= 0 /\ currentIndex <= Len(trials)

\* C24: in every reachable state the cursor equals the number of trials in
\* the accepted bucket plus the number in the rejected bucket.
C24_CursorCountsReviewed ==
  currentIndex = Len(matchedTrials) + Len(rejectedTrials)

\* C24 witness: a second search, for ProfileB, has succeeded and reset
\* cursor and buckets, and one trial of its result has been accepted.
C24_Witness ==
  /\ callsIssued >= 2
  /\ searchedProfileRef = profileKey(ProfileB)
  /\ currentIndex = 1
  /\ Len(trials) >= 1
  /\ matchedTrials = <<trials[1]>>
  /\ rejectedTrials = <<>>

\* C25: whenever no call is outstanding and no error is set, the result
\* list holds no trial that filterTrialsByAllergies excludes for the
\* allergies of the current profile.
C25_NoAllergenTrialShown ==
  (calls = <<>> /\ error = <<>>)
    => filterTrialsByAllergies(trials, userProfile.allergies) = trials

\* every outstanding call eventually settles
SettleFairness ==
  /\ WF_vars(\E i \in 1..MaxCalls, o \in Outcomes : loadTrialsResume(i, o))
  /\ WF_vars(\E i \in 1..MaxCalls, o \in Outcomes : loadMoreResume(i, o))

SpecLive == Init /\ [][Next]_vars /\ SettleFairness

\* C26: a change of the profile to a valid profile whose fingerprint is not
\* the stored one, arriving while the search of another fingerprint is in
\* flight, leads to a search issued for the profile then current (or the
\* component is unmounted, the profile then current cannot be searched, or
\* no call is left in the budget).
C26_ChangeLeadsToSearch ==
  \A p \in Profiles :
    (/\ isMountedRef
     /\ callsIssued < MaxCalls
     /\ userProfile = p
     /\ ~missingConditions(p) /\ ~missingLocation(p)
     /\ searchedProfileRef # profileKey(p)
     /\ \E i \in 1..Len(calls) : /\ calls[i].kind = "loadTrials"
                                 /\ calls[i].profileKey # profileKey(p))
      ~> (\/ ~isMountedRef
          \/ callsIssued = MaxCalls
          \/ missingConditions(userProfile) \/ missingLocation(userProfile)
          \/ searchedProfileRef = profileKey(userProfile)
          \/ \E i \in 1..Len(calls) :
               /\ calls[i].kind = "loadTrials"
               /\ calls[i].profileKey = profileKey(userProfile))

\* C27: whenever no call is outstanding and the stored fingerprint is the
\* fingerprint of the current profile, the results of that search are
\* shown: the result list is non-empty and no error of a search ("failed to
\* load", "no trials found") is displayed.
C27_StoredFingerprintShowsResults ==
  (calls = <<>> /\ searchedProfileRef = profileKey(userProfile))
    => /\ trials # <<>>
       /\ error \notin {<<ErrFailedToLoad>>, <<ErrNoTrials>>}

====
